---- MODULE Spec2Model ----
(***************************************************************************)
(* TCPing (src/src/main.go): a probe loop goroutine that performs timed    *)
(* TCP connects, a mutex-guarded Statistics aggregator, and the main       *)
(* goroutine that races an OS interrupt against the loop's completion and  *)
(* then prints the summary.                                                *)
(*                                                                         *)
(* Conventions of the model                                                *)
(*  - a Go string that the code parses or slices is a sequence of tokens   *)
(*    (port strings: one token per character; addresses: "[", ip, "]");    *)
(*  - elapsed times are integers: the microsecond count that pingOnce      *)
(*    divides by 1000.0; a float quotient is kept exact as [num, den];     *)
(*  - time is not measured: a timer or a deadline may fire at any moment;  *)
(*  - the flag package has already filled Options (ShowHelp and            *)
(*    ShowVersion are false), and an OS signal reaches the program only    *)
(*    through the channel that signal.Notify registers.                    *)
(***************************************************************************)
EXTENDS Integers, Sequences, FiniteSets, TLC

\* ---------------------------------------------------------------- bounds

\* Attempts an unbounded run (Count = 0) may start before the model stops it.
MaxAttempts == 2

\* Concurrent callers of Statistics.update in the aggregator harness.
MaxCallers == 3

\* ---------------------------------------------------------------- inputs

\* Microsecond readings of time.Since(start) that a dial may produce.
ElapsedValues == {2, 5}

\* Values of the -n flag.
CountValues == {-1, 0, 1, 2}

\* Values of the -t flag (milliseconds).
IntervalValues == {-1, 0}

\* Values of the -w flag (milliseconds).
TimeoutValues == {-1, 0, 1000}

\* Values of the -p flag (0: not given).
PortFlagValues == {0, 8080, 70000}

\* Host arguments.
HostValues ==
  {"127.0.0.1", "::1", "::ffff:10.0.0.1", "dual.example", "six.example",
   "empty.example", "bad.example"}

\* Hosts handed to resolveAddress on its own: the host arguments and further
\* spellings of literals and shapes of candidate lists.
ResolverHostValues ==
  HostValues \cup {"192.0.2.7", "0:0:0:0:0:0:0:1", "2001:DB8::1", "four.example",
                   "localhost", "late6.example"}

\* Positional port arguments, one token per character.
PortArgValues == {<<"6", "5", "5", "3", "5">>, <<"0">>, <<"6", "5", "5", "3", "6">>, <<"h", "t", "t", "p">>}

\* ------------------------------------------------------- library functions

NoIP == [nil |-> TRUE, v4 |-> FALSE, str |-> ""]

IP(isV4, s) == [nil |-> FALSE, v4 |-> isV4, str |-> s]

\* net.ParseIP followed by the two observers the code uses: To4() != nil and
\* String().  An IPv4-mapped IPv6 literal is an IPv4 address whose String()
\* is the dotted quad; String() of an IPv6 address is its canonical text
\* (lower case, the longest run of zero groups compressed).
ParseIP(s) ==
  CASE s = "127.0.0.1" -> IP(TRUE, "127.0.0.1")
    [] s = "192.0.2.7" -> IP(TRUE, "192.0.2.7")
    [] s = "::1" -> IP(FALSE, "::1")
    [] s = "0:0:0:0:0:0:0:1" -> IP(FALSE, "::1")
    [] s = "2001:DB8::1" -> IP(FALSE, "2001:db8::1")
    [] s = "::ffff:10.0.0.1" -> IP(TRUE, "10.0.0.1")
    [] OTHER -> NoIP

\* net.LookupIP: the candidate list in resolver order, or an error.
LookupIP(s) ==
  CASE s = "dual.example" ->
         [err |-> FALSE, ips |-> <<IP(FALSE, "2001:db8::1"), IP(TRUE, "192.0.2.1"), IP(TRUE, "192.0.2.2")>>]
    [] s = "six.example" ->
         [err |-> FALSE, ips |-> <<IP(FALSE, "2001:db8::6"), IP(FALSE, "2001:db8::7")>>]
    [] s = "four.example" ->
         [err |-> FALSE, ips |-> <<IP(TRUE, "192.0.2.4"), IP(TRUE, "192.0.2.5")>>]
    [] s = "localhost" ->
         [err |-> FALSE, ips |-> <<IP(TRUE, "127.0.0.1"), IP(FALSE, "::1")>>]
    [] s = "late6.example" ->
         [err |-> FALSE, ips |-> <<IP(TRUE, "192.0.2.8"), IP(FALSE, "2001:db8::8"), IP(FALSE, "2001:db8::9")>>]
    [] s = "empty.example" -> [err |-> FALSE, ips |-> <<>>]
    [] OTHER -> [err |-> TRUE, ips |-> <<>>]

Digits == <<"0", "1", "2", "3", "4", "5", "6", "7", "8", "9">>

IsDigit(c) == \E d \in 1..10 : Digits[d] = c

DigitVal(c) == (CHOOSE d \in 1..10 : Digits[d] = c) - 1

RECURSIVE DigitsVal(_)
DigitsVal(s) ==
  IF s = <<>> THEN 0
  ELSE DigitsVal(SubSeq(s, 1, Len(s) - 1)) * 10 + DigitVal(s[Len(s)])

\* strconv.Atoi: an optional sign, then one or more decimal digits.
Atoi(s) ==
  LET signed == s # <<>> /\ Head(s) \in {"+", "-"}
      body == IF signed THEN Tail(s) ELSE s
  IN IF body = <<>> \/ \E k \in 1..Len(body) : ~IsDigit(body[k])
       THEN [err |-> TRUE, n |-> 0]
       ELSE [err |-> FALSE,
             n |-> IF signed /\ Head(s) = "-" THEN 0 - DigitsVal(body) ELSE DigitsVal(body)]

RECURSIVE ItoaPos(_)
ItoaPos(n) ==
  IF n < 10 THEN <<Digits[n + 1]>>
  ELSE Append(ItoaPos(n \div 10), Digits[(n % 10) + 1])

\* strconv.Itoa
Itoa(n) == IF n < 0 THEN <<"-">> \o ItoaPos(0 - n) ELSE ItoaPos(n)

\* ------------------------------------------------------------ pure code

NoError == "nil"

\* Mutant of validateOptions: a negative count is rejected the way a negative
\* interval or timeout is.
validateOptionsRejectsNegativeCount(o, a) ==
  LET port == IF Len(a) > 1 THEN a[2]
              ELSE IF o.Port > 0 THEN Itoa(o.Port)
              ELSE <<"8", "0">>
      portNum == Atoi(port)
      fail(e) == [host |-> "", port |-> <<>>, err |-> e]
  IN IF o.UseIPv4 /\ o.UseIPv6 THEN fail("both -4 and -6")
     ELSE IF o.Interval < 0 THEN fail("negative interval")
     ELSE IF o.Timeout < 0 THEN fail("negative timeout")
     ELSE IF o.Count < 0 THEN fail("negative count")
     ELSE IF Len(a) < 1 THEN fail("host required")
     ELSE IF portNum.err THEN fail("port format")
     ELSE IF portNum.n <= 0 \/ portNum.n > 65535 THEN fail("port range")
     ELSE [host |-> a[1], port |-> port, err |-> NoError]

\* Mutant of validateOptions: the range test lets port 0 through
\* (portNum < 0 in place of portNum <= 0).
validateOptionsAcceptsZero(o, a) ==
  LET port == IF Len(a) > 1 THEN a[2]
              ELSE IF o.Port > 0 THEN Itoa(o.Port)
              ELSE <<"8", "0">>
      portNum == Atoi(port)
      fail(e) == [host |-> "", port |-> <<>>, err |-> e]
  IN IF o.UseIPv4 /\ o.UseIPv6 THEN fail("both -4 and -6")
     ELSE IF o.Interval < 0 THEN fail("negative interval")
     ELSE IF o.Timeout < 0 THEN fail("negative timeout")
     ELSE IF Len(a) < 1 THEN fail("host required")
     ELSE IF portNum.err THEN fail("port format")
     ELSE IF portNum.n < 0 \/ portNum.n > 65535 THEN fail("port range")
     ELSE [host |-> a[1], port |-> port, err |-> NoError]

\* validateOptions: (host, port, err) from the parsed flags and the positional
\* arguments.  The checks run in source order; the first that fails decides.
validateOptions(o, a) ==
  LET port == IF Len(a) > 1 THEN a[2]
              ELSE IF o.Port > 0 THEN Itoa(o.Port)
              ELSE <<"8", "0">>
      portNum == Atoi(port)
      fail(e) == [host |-> "", port |-> <<>>, err |-> e]
  IN IF o.UseIPv4 /\ o.UseIPv6 THEN fail("both -4 and -6")
     ELSE IF o.Interval < 0 THEN fail("negative interval")
     ELSE IF o.Timeout < 0 THEN fail("negative timeout")
     ELSE IF Len(a) < 1 THEN fail("host required")
     ELSE IF portNum.err THEN fail("port format")
     ELSE IF portNum.n <= 0 \/ portNum.n > 65535 THEN fail("port range")
     ELSE [host |-> a[1], port |-> port, err |-> NoError]

\* getIPType
getIPType(address) ==
  LET ip == ParseIP(address)
  IN IF ip.nil THEN [isIPv4 |-> FALSE, isIPv6 |-> FALSE]
     ELSE [isIPv4 |-> ip.v4, isIPv6 |-> ~ip.v4]

\* The bracket-delimited form "[" + ip.String() + "]".
Bracketed(ip) == <<"[", ip.str, "]">>

Bare(ip) == <<ip.str>>

\* Mutant of FirstOfFamily: the search runs from the end of the list.
LastOfFamily(ips, wantV4) ==
  IF \E k \in 1..Len(ips) : ips[k].v4 = wantV4
    THEN CHOOSE k \in 1..Len(ips) :
           /\ ips[k].v4 = wantV4
           /\ \A j \in (k + 1)..Len(ips) : ips[j].v4 # wantV4
    ELSE 0

\* Index of the first element of ips that satisfies the family test, 0 if none
\* (the for ... range loops of resolveAddress).
FirstOfFamily(ips, wantV4) ==
  IF \E k \in 1..Len(ips) : ips[k].v4 = wantV4
    THEN CHOOSE k \in 1..Len(ips) :
           /\ ips[k].v4 = wantV4
           /\ \A j \in 1..(k - 1) : ips[j].v4 # wantV4
    ELSE 0

\* Mutant of resolveAddress: a literal is not tested against useIPv6.
resolveAddressSkipsIPv6Test(address, useIPv4, useIPv6) ==
  LET ip == ParseIP(address)
      look == LookupIP(address)
      ips == look.ips
      ok(a) == [addr |-> a, err |-> NoError]
      fail(e) == [addr |-> <<>>, err |-> e]
      k4 == FirstOfFamily(ips, TRUE)
      k6 == FirstOfFamily(ips, FALSE)
  IN IF ~ip.nil THEN
       IF useIPv4 /\ ~ip.v4 THEN fail("not an IPv4 address")
       ELSE IF ~ip.v4 THEN ok(Bracketed(ip))
       ELSE ok(Bare(ip))
     ELSE IF look.err THEN fail("lookup failed")
     ELSE IF Len(ips) = 0 THEN fail("no IP address")
     ELSE IF useIPv4 THEN
       IF k4 # 0 THEN ok(Bare(ips[k4])) ELSE fail("no IPv4 address")
     ELSE IF useIPv6 THEN
       IF k6 # 0 THEN ok(Bracketed(ips[k6])) ELSE fail("no IPv6 address")
     ELSE IF k4 # 0 THEN ok(Bare(ips[k4]))
     ELSE IF k6 # 0 THEN ok(Bracketed(ips[k6]))
     ELSE IF ~ips[1].v4 THEN ok(Bracketed(ips[1]))
     ELSE ok(Bare(ips[1]))

\* resolveAddress: (address, err).
resolveAddress(address, useIPv4, useIPv6) ==
  LET ip == ParseIP(address)
      look == LookupIP(address)
      ips == look.ips
      ok(a) == [addr |-> a, err |-> NoError]
      fail(e) == [addr |-> <<>>, err |-> e]
      k4 == FirstOfFamily(ips, TRUE)
      k6 == FirstOfFamily(ips, FALSE)
  IN IF ~ip.nil THEN
       IF useIPv4 /\ ~ip.v4 THEN fail("not an IPv4 address")
       ELSE IF useIPv6 /\ ip.v4 THEN fail("not an IPv6 address")
       ELSE IF ~ip.v4 THEN ok(Bracketed(ip))
       ELSE ok(Bare(ip))
     ELSE IF look.err THEN fail("lookup failed")
     ELSE IF Len(ips) = 0 THEN fail("no IP address")
     ELSE IF useIPv4 THEN
       IF k4 # 0 THEN ok(Bare(ips[k4])) ELSE fail("no IPv4 address")
     ELSE IF useIPv6 THEN
       IF k6 # 0 THEN ok(Bracketed(ips[k6])) ELSE fail("no IPv6 address")
     ELSE IF k4 # 0 THEN ok(Bare(ips[k4]))
     ELSE IF k6 # 0 THEN ok(Bracketed(ips[k6]))
     ELSE IF ~ips[1].v4 THEN ok(Bracketed(ips[1]))
     ELSE ok(Bare(ips[1]))

\* strings.HasPrefix(address, "[") && strings.HasSuffix(address, "]")
IsBracketed(a) == a # <<>> /\ Head(a) = "[" /\ a[Len(a)] = "]"

\* address[1 : len(address)-1]
StripBrackets(a) == SubSeq(a, 2, Len(a) - 1)

\* ---------------------------------------------------------------- state

VARIABLES
  opts,       \* Options after flag parsing
  args,       \* flag.Args(): <<>>, <<host>> or <<host, port>>
  mainPc,     \* position of main
  exited,     \* the process has ended (os.Exit, or main returned)
  exitCode,   \* its exit code, once exited
  target,     \* main's locals host, port, useIPv4, useIPv6, address, ipAddress
  stats,      \* the Statistics object (NoStats before main creates it)
  mu,         \* holder of the sync.Mutex embedded in Statistics
  frame,      \* per goroutine: the Statistics method call in progress
  ctx,        \* the cancellation context: "none", "active", "canceled"
  interrupt,  \* signals buffered in the interrupt channel (capacity 1)
  wg,         \* the WaitGroup counter
  doneClosed, \* the done channel is closed
  loopPc,     \* position of the probe goroutine
  loopRet,    \* the statement the probe goroutine left its loop by
  i,          \* the probe goroutine's loop variable
  ping,       \* pingOnce's locals conn, err, elapsed
  wake,       \* how the inter-attempt select was completed
  sockets,    \* TCP connections currently open
  out,        \* lines written to standard output
  errOut      \* lines written to standard error

vars == <<opts, args, mainPc, exited, exitCode, target, stats, mu, frame, ctx,
          interrupt, wg, doneClosed, loopPc, loopRet, i, ping, wake, sockets,
          out, errOut>>

mainVars == <<mainPc, exited, exitCode, target, ctx, interrupt, wg, doneClosed>>

loopVars == <<loopPc, loopRet, i, ping, wake, sockets>>

NoThread == "nobody"

NoStats == [created |-> FALSE, sentCount |-> 0, respondedCount |-> 0,
            minTime |-> 0, maxTime |-> 0, totalTime |-> 0]

\* &Statistics{}: every field zero.
NewStatistics == [NoStats EXCEPT !.created = TRUE]

\* A float64 quotient a/b, kept exact.
Quot(a, b) == [num |-> a, den |-> b]

ZeroFloat == Quot(0, 1)

NoResult == [sent |-> 0, responded |-> 0, min |-> 0, max |-> 0, avg |-> ZeroFloat]

IdleFrame == [pc |-> "idle", elapsed |-> 0, success |-> FALSE, tmp |-> 0,
              avg |-> ZeroFloat, ret |-> NoResult]

NoPing == [conn |-> "nil", err |-> NoError, elapsed |-> 0]

NoTarget == [host |-> "", port |-> <<>>, useIPv4 |-> FALSE, useIPv6 |-> FALSE,
             address |-> <<>>, ipAddress |-> <<>>, ipType |-> ""]

Workers == {"w" \o ToString(n) : n \in 1..MaxCallers}

Threads == {"main", "loop", "reader"} \cup Workers

\* ----------------------------------------------------------- Statistics

\* A goroutine is scheduled only while the process lives.
Alive == ~exited

\* The critical-section positions of update and getStats.
InCritical(t) == frame[t].pc \in {"u_load", "u_store", "u_rest", "u_unlock",
                                  "g_avg", "g_read", "g_unlock"}

\* Mutant of Lock: the mutex is taken without waiting for it to be free.
LockNoWait(t) == mu' = t

\* s.Lock(): blocks until the mutex is free.
Lock(t) == mu = NoThread /\ mu' = t

\* s.Unlock() (deferred).
Unlock(t) == mu' = NoThread

\* The caller's side of stats.update(elapsed, success).
CallUpdate(t, elapsed, success) ==
  [frame EXCEPT ![t] = [IdleFrame EXCEPT !.pc = "u_lock", !.elapsed = elapsed,
                                         !.success = success]]

\* The caller's side of stats.getStats().
CallGetStats(t) == [frame EXCEPT ![t] = [IdleFrame EXCEPT !.pc = "g_lock"]]

\* Mutant of Responded: the two comparisons are exchanged, a larger elapsed
\* value replaces minTime and a smaller one maxTime.
RespondedComparisonsSwapped(s, elapsed) ==
  LET r == [s EXCEPT !.respondedCount = s.respondedCount + 1,
                     !.totalTime = s.totalTime + elapsed]
  IN IF r.respondedCount = 1
       THEN [r EXCEPT !.minTime = elapsed, !.maxTime = elapsed]
       ELSE [r EXCEPT !.minTime = IF elapsed > r.minTime THEN elapsed ELSE r.minTime,
                      !.maxTime = IF elapsed < r.maxTime THEN elapsed ELSE r.maxTime]

\* Mutant of Responded: no first-response case, minTime and maxTime are only
\* ever compared against their zero initial values.
RespondedZeroSentinel(s, elapsed) ==
  LET r == [s EXCEPT !.respondedCount = s.respondedCount + 1,
                     !.totalTime = s.totalTime + elapsed]
  IN [r EXCEPT !.minTime = IF elapsed < r.minTime THEN elapsed ELSE r.minTime,
               !.maxTime = IF elapsed > r.maxTime THEN elapsed ELSE r.maxTime]

\* update, after s.sentCount++, for a success: respondedCount, totalTime and
\* the first-response special case of minTime and maxTime.
Responded(s, elapsed) ==
  LET r == [s EXCEPT !.respondedCount = s.respondedCount + 1,
                     !.totalTime = s.totalTime + elapsed]
  IN IF r.respondedCount = 1
       THEN [r EXCEPT !.minTime = elapsed, !.maxTime = elapsed]
       ELSE [r EXCEPT !.minTime = IF elapsed < r.minTime THEN elapsed ELSE r.minTime,
                      !.maxTime = IF elapsed > r.maxTime THEN elapsed ELSE r.maxTime]

\* getStats: avg = 0.0, or totalTime / float64(respondedCount).
Average(s) ==
  IF s.respondedCount > 0 THEN Quot(s.totalTime, s.respondedCount) ELSE ZeroFloat

UpdateLock(t) ==
  /\ Alive
  /\ frame[t].pc = "u_lock"
  /\ Lock(t)
  /\ frame' = [frame EXCEPT ![t].pc = "u_load"]
  /\ UNCHANGED <<opts, args, mainVars, loopVars, stats, out, errOut>>

\* s.sentCount++ reads the field ...
UpdateLoad(t) ==
  /\ Alive
  /\ frame[t].pc = "u_load"
  /\ frame' = [frame EXCEPT ![t].pc = "u_store", ![t].tmp = stats.sentCount]
  /\ UNCHANGED <<opts, args, mainVars, loopVars, stats, mu, out, errOut>>

\* ... and writes it back; if !success { return }.
UpdateStore(t) ==
  /\ Alive
  /\ frame[t].pc = "u_store"
  /\ stats' = [stats EXCEPT !.sentCount = frame[t].tmp + 1]
  /\ frame' = [frame EXCEPT ![t].pc = IF frame[t].success THEN "u_rest" ELSE "u_unlock"]
  /\ UNCHANGED <<opts, args, mainVars, loopVars, mu, out, errOut>>

UpdateRest(t) ==
  /\ Alive
  /\ frame[t].pc = "u_rest"
  /\ stats' = Responded(stats, frame[t].elapsed)
  /\ frame' = [frame EXCEPT ![t].pc = "u_unlock"]
  /\ UNCHANGED <<opts, args, mainVars, loopVars, mu, out, errOut>>

UpdateUnlock(t) ==
  /\ Alive
  /\ frame[t].pc = "u_unlock"
  /\ Unlock(t)
  /\ frame' = [frame EXCEPT ![t].pc = "ret"]
  /\ UNCHANGED <<opts, args, mainVars, loopVars, stats, out, errOut>>

GetStatsLock(t) ==
  /\ Alive
  /\ frame[t].pc = "g_lock"
  /\ Lock(t)
  /\ frame' = [frame EXCEPT ![t].pc = "g_avg"]
  /\ UNCHANGED <<opts, args, mainVars, loopVars, stats, out, errOut>>

GetStatsAvg(t) ==
  /\ Alive
  /\ frame[t].pc = "g_avg"
  /\ frame' = [frame EXCEPT ![t].pc = "g_read", ![t].avg = Average(stats)]
  /\ UNCHANGED <<opts, args, mainVars, loopVars, stats, mu, out, errOut>>

\* return s.sentCount, s.respondedCount, s.minTime, s.maxTime, avg
GetStatsRead(t) ==
  /\ Alive
  /\ frame[t].pc = "g_read"
  /\ frame' = [frame EXCEPT ![t].pc = "g_unlock",
                            ![t].ret = [sent |-> stats.sentCount,
                                        responded |-> stats.respondedCount,
                                        min |-> stats.minTime,
                                        max |-> stats.maxTime,
                                        avg |-> frame[t].avg]]
  /\ UNCHANGED <<opts, args, mainVars, loopVars, stats, mu, out, errOut>>

GetStatsUnlock(t) ==
  /\ Alive
  /\ frame[t].pc = "g_unlock"
  /\ Unlock(t)
  /\ frame' = [frame EXCEPT ![t].pc = "ret"]
  /\ UNCHANGED <<opts, args, mainVars, loopVars, stats, out, errOut>>

\* ----------------------------------------------------------- output lines

\* pingOnce's result lines, its verbose detail line and its interruption notice.
SuccessLine(seq, elapsed) == [kind |-> "ok", seq |-> seq, time |-> elapsed]

FailureLine(seq, err) == [kind |-> "fail", seq |-> seq, text |-> err]

DetailLine == [kind |-> "detail"]

AbortedLine == [kind |-> "aborted"]

\* main's lines.
HeaderLine(t) == [kind |-> "header", host |-> t.host, ipType |-> t.ipType,
                  ip |-> t.ipAddress, port |-> t.port]

InterruptedLine == [kind |-> "interrupted"]

\* printTCPingStatistics, given what getStats returned: the title always, the
\* totals if sent > 0, the RTT line if also responded > 0.
SummaryLines(r) ==
  <<[kind |-> "summary"]>>
  \o (IF r.sent > 0
        THEN <<[kind |-> "totals", sent |-> r.sent, responded |-> r.responded,
                lost |-> r.sent - r.responded,
                lossRate |-> Quot((r.sent - r.responded) * 100, r.sent)]>>
             \o (IF r.responded > 0
                   THEN <<[kind |-> "rtt", min |-> r.min, max |-> r.max, avg |-> r.avg]>>
                   ELSE <<>>)
        ELSE <<>>)

\* ------------------------------------------------------------------ main

\* handleError(err, 1): the message goes to standard error, the process exits.
Fatal(e) ==
  /\ errOut' = Append(errOut, e)
  /\ exited' = TRUE
  /\ exitCode' = 1
  /\ mainPc' = "exit"

\* cancel(): closes ctx.Done(); a goroutine parked in the inter-attempt select
\* is woken by that case.
Cancel ==
  /\ ctx' = "canceled"
  /\ wake' = IF loopPc = "wait" /\ wake = "none" THEN "ctx" ELSE wake

MainValidate ==
  /\ Alive
  /\ mainPc = "validate"
  /\ LET v == validateOptions(opts, args)
     IN IF v.err # NoError
          THEN Fatal(v.err) /\ UNCHANGED target
          ELSE /\ target' = [target EXCEPT !.host = v.host, !.port = v.port]
               /\ mainPc' = "resolve"
               /\ UNCHANGED <<exited, exitCode, errOut>>
  /\ UNCHANGED <<opts, args, stats, mu, frame, ctx, interrupt, wg, doneClosed,
                 loopVars, out>>

\* From getIPType to the header line.
MainResolve ==
  /\ Alive
  /\ mainPc = "resolve"
  /\ LET ty == getIPType(target.host)
         useIPv4 == opts.UseIPv4 \/ (~opts.UseIPv6 /\ ty.isIPv4)
         useIPv6 == opts.UseIPv6 \/ ty.isIPv6
         r == resolveAddress(target.host, useIPv4, useIPv6)
         t == [target EXCEPT !.useIPv4 = useIPv4, !.useIPv6 = useIPv6,
                             !.address = r.addr,
                             !.ipAddress = IF IsBracketed(r.addr)
                                             THEN StripBrackets(r.addr) ELSE r.addr,
                             !.ipType = IF IsBracketed(r.addr) THEN "IPv6" ELSE "IPv4"]
     IN IF r.err # NoError
          THEN /\ Fatal(r.err)
               /\ target' = [target EXCEPT !.useIPv4 = useIPv4, !.useIPv6 = useIPv6]
               /\ UNCHANGED out
          ELSE /\ target' = t
               /\ out' = Append(out, HeaderLine(t))
               /\ mainPc' = "setup"
               /\ UNCHANGED <<exited, exitCode, errOut>>
  /\ UNCHANGED <<opts, args, stats, mu, frame, ctx, interrupt, wg, doneClosed,
                 loopVars>>

\* stats, ctx, signal.Notify, wg.Add(1) and the two go statements.
MainSetup ==
  /\ Alive
  /\ mainPc = "setup"
  /\ stats' = NewStatistics
  /\ ctx' = "active"
  /\ wg' = wg + 1
  /\ loopPc' = "check"
  /\ mainPc' = "select"
  /\ UNCHANGED <<opts, args, exited, exitCode, target, mu, frame, interrupt,
                 doneClosed, loopRet, i, ping, wake, sockets, out, errOut>>

\* Mutant of MainOnInterrupt: the interrupt case prints the statistics itself
\* before falling through to the common printTCPingStatistics.
MainOnInterruptPrintsSummary ==
  /\ Alive
  /\ mainPc = "select"
  /\ interrupt > 0
  /\ interrupt' = interrupt - 1
  /\ out' = Append(out, InterruptedLine)
            \o SummaryLines([NoResult EXCEPT !.sent = stats.sentCount,
                                             !.responded = stats.respondedCount])
  /\ Cancel
  /\ frame' = CallGetStats("main")
  /\ mainPc' = "stats"
  /\ UNCHANGED <<opts, args, exited, exitCode, target, stats, mu, wg, doneClosed,
                 loopPc, loopRet, i, ping, sockets, errOut>>

\* select, case <-interrupt: the notice, cancel(), then printTCPingStatistics
\* calls getStats.
MainOnInterrupt ==
  /\ Alive
  /\ mainPc = "select"
  /\ interrupt > 0
  /\ interrupt' = interrupt - 1
  /\ out' = Append(out, InterruptedLine)
  /\ Cancel
  /\ frame' = CallGetStats("main")
  /\ mainPc' = "stats"
  /\ UNCHANGED <<opts, args, exited, exitCode, target, stats, mu, wg, doneClosed,
                 loopPc, loopRet, i, ping, sockets, errOut>>

\* select, case <-done.
MainOnDone ==
  /\ Alive
  /\ mainPc = "select"
  /\ doneClosed
  /\ frame' = CallGetStats("main")
  /\ mainPc' = "stats"
  /\ UNCHANGED <<opts, args, exited, exitCode, target, stats, mu, ctx, interrupt,
                 wg, doneClosed, loopVars, out, errOut>>

\* printTCPingStatistics after getStats has returned; main returns (the
\* deferred cancel runs) and the process ends with code 0.
MainPrint ==
  /\ Alive
  /\ mainPc = "stats"
  /\ frame["main"].pc = "ret"
  /\ out' = out \o SummaryLines(frame["main"].ret)
  /\ Cancel
  /\ exited' = TRUE
  /\ exitCode' = 0
  /\ mainPc' = "exit"
  /\ UNCHANGED <<opts, args, target, stats, mu, frame, interrupt, wg, doneClosed,
                 loopPc, loopRet, i, ping, sockets, errOut>>

\* go func() { wg.Wait(); close(done) }()
WaiterClose ==
  /\ Alive
  /\ mainPc \in {"select", "stats"}
  /\ wg = 0
  /\ ~doneClosed
  /\ doneClosed' = TRUE
  /\ UNCHANGED <<opts, args, mainPc, exited, exitCode, target, stats, mu, frame,
                 ctx, interrupt, wg, loopVars, out, errOut>>

\* The OS delivers SIGINT or SIGTERM: signal.Notify's send into the channel of
\* capacity 1 does not block, a signal that finds it full is dropped.
Signal ==
  /\ Alive
  /\ mainPc \in {"select", "stats"}
  /\ interrupt = 0
  /\ interrupt' = 1
  /\ UNCHANGED <<opts, args, mainPc, exited, exitCode, target, stats, mu, frame,
                 ctx, wg, doneClosed, loopVars, out, errOut>>

\* -------------------------------------------------------- probe goroutine

\* The goroutine leaves its function by statement r; the deferred wg.Done()
\* runs.
LoopReturn(r) ==
  /\ loopPc' = "done"
  /\ loopRet' = r
  /\ wg' = wg - 1

\* Mutant of LoopCondFalse: the loop condition is `i < opts.Count` alone, a
\* count of zero is not taken as unbounded.
LoopCondFalseZeroIsBound ==
  /\ Alive
  /\ loopPc = "check"
  /\ ~(i < opts.Count)
  /\ LoopReturn("cond")
  /\ UNCHANGED <<opts, args, mainPc, exited, exitCode, target, stats, mu, frame,
                 ctx, interrupt, doneClosed, i, ping, wake, sockets, out, errOut>>

\* for i := 0; opts.Count == 0 || i < opts.Count; i++ : the condition fails.
LoopCondFalse ==
  /\ Alive
  /\ loopPc = "check"
  /\ ~(opts.Count = 0 \/ i < opts.Count)
  /\ LoopReturn("cond")
  /\ UNCHANGED <<opts, args, mainPc, exited, exitCode, target, stats, mu, frame,
                 ctx, interrupt, doneClosed, i, ping, wake, sockets, out, errOut>>

\* The pre-attempt select finds ctx.Done() closed.
LoopPreCheckCanceled ==
  /\ Alive
  /\ loopPc = "check"
  /\ opts.Count = 0 \/ i < opts.Count
  /\ ctx = "canceled"
  /\ LoopReturn("precheck")
  /\ UNCHANGED <<opts, args, mainPc, exited, exitCode, target, stats, mu, frame,
                 ctx, interrupt, doneClosed, i, ping, wake, sockets, out, errOut>>

\* Mutant of LoopBeginPing: the pre-attempt select is missing, every cycle
\* goes on to pingOnce.
LoopBeginPingUnchecked ==
  /\ Alive
  /\ loopPc = "check"
  /\ opts.Count = 0 \/ i < opts.Count
  /\ opts.Count = 0 => i < MaxAttempts
  /\ loopPc' = "call"
  /\ UNCHANGED <<opts, args, mainVars, stats, mu, frame, loopRet, i, ping, wake,
                 sockets, out, errOut>>

\* The pre-attempt select finds ctx.Done() open and takes its default case:
\* the goroutine goes on to the call of pingOnce.
LoopBeginPing ==
  /\ Alive
  /\ loopPc = "check"
  /\ opts.Count = 0 \/ i < opts.Count
  /\ opts.Count = 0 => i < MaxAttempts
  /\ ctx # "canceled"
  /\ loopPc' = "call"
  /\ UNCHANGED <<opts, args, mainVars, stats, mu, frame, loopRet, i, ping, wake,
                 sockets, out, errOut>>

\* pingOnce is called: it derives dialCtx and calls DialContext.  A dial
\* begun under a context that is already canceled returns that error without
\* connecting; otherwise the connect is in flight.
PingDial ==
  /\ Alive
  /\ loopPc = "call"
  /\ IF ctx = "canceled"
       THEN /\ \E e \in ElapsedValues :
                 ping' = [conn |-> "nil", err |-> "canceled", elapsed |-> e]
            /\ loopPc' = "dialed"
       ELSE /\ ping' = ping
            /\ loopPc' = "dial"
  /\ UNCHANGED <<opts, args, mainVars, stats, mu, frame, loopRet, i, wake, sockets,
                 out, errOut>>

\* DialContext returns a connection.  A deadline of zero milliseconds has
\* expired before the dial begins, so this needs Timeout > 0.
DialSucceed ==
  /\ Alive
  /\ loopPc = "dial"
  /\ opts.Timeout > 0
  /\ \E e \in ElapsedValues : ping' = [conn |-> "open", err |-> NoError, elapsed |-> e]
  /\ sockets' = sockets + 1
  /\ loopPc' = "dialed"
  /\ UNCHANGED <<opts, args, mainVars, stats, mu, frame, loopRet, i, wake, out, errOut>>

\* DialContext returns a connect error of the network (refused, unreachable).
DialRefused ==
  /\ Alive
  /\ loopPc = "dial"
  /\ opts.Timeout > 0
  /\ \E e \in ElapsedValues : ping' = [conn |-> "nil", err |-> "refused", elapsed |-> e]
  /\ loopPc' = "dialed"
  /\ UNCHANGED <<opts, args, mainVars, stats, mu, frame, loopRet, i, wake, sockets,
                 out, errOut>>

\* dialCtx's own deadline expires.
DialTimeout ==
  /\ Alive
  /\ loopPc = "dial"
  /\ \E e \in ElapsedValues : ping' = [conn |-> "nil", err |-> "timeout", elapsed |-> e]
  /\ loopPc' = "dialed"
  /\ UNCHANGED <<opts, args, mainVars, stats, mu, frame, loopRet, i, wake, sockets,
                 out, errOut>>

\* The parent context is canceled while the dial is in flight.
DialCanceled ==
  /\ Alive
  /\ loopPc = "dial"
  /\ ctx = "canceled"
  /\ \E e \in ElapsedValues : ping' = [conn |-> "nil", err |-> "canceled", elapsed |-> e]
  /\ loopPc' = "dialed"
  /\ UNCHANGED <<opts, args, mainVars, stats, mu, frame, loopRet, i, wake, sockets,
                 out, errOut>>

\* Mutant of PingCanceled: the cancellation test comes after stats.update, so
\* the aborted attempt is counted as a failure before the notice is printed.
PingCanceledCounts ==
  /\ Alive
  /\ loopPc = "dialed"
  /\ ctx = "canceled"
  /\ stats' = [stats EXCEPT !.sentCount = stats.sentCount + 1]
  /\ out' = Append(out, AbortedLine)
  /\ ping' = NoPing
  /\ loopPc' = "post"
  /\ UNCHANGED <<opts, args, mainVars, mu, frame, loopRet, i, wake, sockets, errOut>>

\* if ctx.Err() == context.Canceled: the notice, return.
PingCanceled ==
  /\ Alive
  /\ loopPc = "dialed"
  /\ ctx = "canceled"
  /\ out' = Append(out, AbortedLine)
  /\ ping' = NoPing
  /\ loopPc' = "post"
  /\ UNCHANGED <<opts, args, mainVars, stats, mu, frame, loopRet, i, wake, sockets,
                 errOut>>

\* Mutant of PingUpdate: only a success is handed to stats.update, a failed
\* connect goes to its report uncounted.
PingUpdateOnlyOnSuccess ==
  /\ Alive
  /\ loopPc = "dialed"
  /\ ctx # "canceled"
  /\ frame' = IF ping.err = NoError
                THEN CallUpdate("loop", ping.elapsed, TRUE)
                ELSE [frame EXCEPT !["loop"] = [IdleFrame EXCEPT !.pc = "ret"]]
  /\ loopPc' = "update"
  /\ UNCHANGED <<opts, args, mainVars, stats, mu, loopRet, i, ping, wake, sockets,
                 out, errOut>>

\* success := err == nil; stats.update(elapsed, success) is called.
PingUpdate ==
  /\ Alive
  /\ loopPc = "dialed"
  /\ ctx # "canceled"
  /\ frame' = CallUpdate("loop", ping.elapsed, ping.err = NoError)
  /\ loopPc' = "update"
  /\ UNCHANGED <<opts, args, mainVars, stats, mu, loopRet, i, ping, wake, sockets,
                 out, errOut>>

\* Mutant of PingReportFailure: a failed connect is reported and then dialed
\* again under the same sequence number.
PingReportFailureRetries ==
  /\ Alive
  /\ loopPc = "update"
  /\ frame["loop"].pc = "ret"
  /\ ping.err # NoError
  /\ out' = out \o <<FailureLine(i, ping.err)>>
                \o (IF opts.VerboseMode THEN <<DetailLine>> ELSE <<>>)
  /\ frame' = [frame EXCEPT !["loop"] = IdleFrame]
  /\ ping' = NoPing
  /\ loopPc' = "dial"
  /\ UNCHANGED <<opts, args, mainVars, stats, mu, loopRet, i, wake, sockets, errOut>>

\* update has returned, !success: the failure line (and the verbose detail),
\* return.
PingReportFailure ==
  /\ Alive
  /\ loopPc = "update"
  /\ frame["loop"].pc = "ret"
  /\ ping.err # NoError
  /\ out' = out \o <<FailureLine(i, ping.err)>>
                \o (IF opts.VerboseMode THEN <<DetailLine>> ELSE <<>>)
  /\ frame' = [frame EXCEPT !["loop"] = IdleFrame]
  /\ ping' = NoPing
  /\ loopPc' = "post"
  /\ UNCHANGED <<opts, args, mainVars, stats, mu, loopRet, i, wake, sockets, errOut>>

\* update has returned, success: defer conn.Close(), the success line (and
\* the verbose detail).
PingReportSuccess ==
  /\ Alive
  /\ loopPc = "update"
  /\ frame["loop"].pc = "ret"
  /\ ping.err = NoError
  /\ out' = out \o <<SuccessLine(i, ping.elapsed)>>
                \o (IF opts.VerboseMode THEN <<DetailLine>> ELSE <<>>)
  /\ frame' = [frame EXCEPT !["loop"] = IdleFrame]
  /\ loopPc' = "close"
  /\ UNCHANGED <<opts, args, mainVars, stats, mu, loopRet, i, ping, wake, sockets,
                 errOut>>

\* pingOnce returns after a success: the deferred conn.Close() runs.
PingClose ==
  /\ Alive
  /\ loopPc = "close"
  /\ sockets' = sockets - 1
  /\ ping' = NoPing
  /\ loopPc' = "post"
  /\ UNCHANGED <<opts, args, mainVars, stats, mu, frame, loopRet, i, wake, out, errOut>>

\* Mutant of LastAttempt: the comparison is off by one.
LastAttemptOffByOne == opts.Count # 0 /\ i = opts.Count

\* The test of `if opts.Count != 0 && i == opts.Count-1`.
LastAttempt == opts.Count # 0 /\ i = opts.Count - 1

\* if opts.Count != 0 && i == opts.Count-1 { break }
LoopBreak ==
  /\ Alive
  /\ loopPc = "post"
  /\ LastAttempt
  /\ LoopReturn("break")
  /\ UNCHANGED <<opts, args, mainPc, exited, exitCode, target, stats, mu, frame,
                 ctx, interrupt, doneClosed, i, ping, wake, sockets, out, errOut>>

\* Mutant of LoopSelectPark: the inter-attempt select is missing, the next
\* iteration begins as soon as pingOnce has returned.
LoopSelectParkSkipsWait ==
  /\ Alive
  /\ loopPc = "post"
  /\ ~LastAttempt
  /\ ctx # "canceled"
  /\ i' = i + 1
  /\ loopPc' = "check"
  /\ UNCHANGED <<opts, args, mainVars, stats, mu, frame, loopRet, ping, wake,
                 sockets, out, errOut>>

\* The inter-attempt select is entered with ctx.Done() open: the goroutine
\* parks on ctx.Done() and the timer.
LoopSelectPark ==
  /\ Alive
  /\ loopPc = "post"
  /\ ~LastAttempt
  /\ ctx # "canceled"
  /\ wake' = "none"
  /\ loopPc' = "wait"
  /\ UNCHANGED <<opts, args, mainVars, stats, mu, frame, loopRet, i, ping, sockets,
                 out, errOut>>

\* The inter-attempt select is entered with ctx.Done() already closed: that
\* case is ready; the timer's is too if the interval has already run out, and
\* select then picks either.
LoopSelectReady ==
  /\ Alive
  /\ loopPc = "post"
  /\ ~LastAttempt
  /\ ctx = "canceled"
  /\ wake' \in {"ready", "timer"}
  /\ loopPc' = "wait"
  /\ UNCHANGED <<opts, args, mainVars, stats, mu, frame, loopRet, i, ping, sockets,
                 out, errOut>>

\* time.After's timer fires while the goroutine is parked: it wakes by the
\* timer case.
TimerFire ==
  /\ Alive
  /\ loopPc = "wait"
  /\ wake = "none"
  /\ wake' = "timer"
  /\ UNCHANGED <<opts, args, mainVars, stats, mu, frame, loopPc, loopRet, i, ping,
                 sockets, out, errOut>>

\* Mutant of LoopWaitCanceled: the wait is a blocking sleep that goes on to the
\* next iteration whatever became of ctx.
LoopWaitIgnoresCancel ==
  /\ Alive
  /\ loopPc = "wait"
  /\ wake \in {"ctx", "ready"}
  /\ i' = i + 1
  /\ loopPc' = "check"
  /\ UNCHANGED <<opts, args, mainVars, stats, mu, frame, loopRet, ping, wake,
                 sockets, out, errOut>>

\* case <-ctx.Done(): return
LoopWaitCanceled ==
  /\ Alive
  /\ loopPc = "wait"
  /\ wake \in {"ctx", "ready"}
  /\ LoopReturn("wait")
  /\ UNCHANGED <<opts, args, mainPc, exited, exitCode, target, stats, mu, frame,
                 ctx, interrupt, doneClosed, i, ping, wake, sockets, out, errOut>>

\* case <-time.After(...): the next iteration, i++.
LoopWaitElapsed ==
  /\ Alive
  /\ loopPc = "wait"
  /\ wake = "timer"
  /\ i' = i + 1
  /\ wake' = "none"
  /\ loopPc' = "check"
  /\ UNCHANGED <<opts, args, mainVars, stats, mu, frame, loopRet, ping, sockets,
                 out, errOut>>

\* ---------------------------------------------------------- the program

OptionValues ==
  [UseIPv4 : BOOLEAN, UseIPv6 : BOOLEAN, Count : CountValues,
   Interval : IntervalValues, Timeout : TimeoutValues, Port : PortFlagValues,
   VerboseMode : BOOLEAN]

ArgValues ==
  {<<>>} \cup {<<h>> : h \in HostValues}
         \cup {<<h, p>> : h \in HostValues, p \in PortArgValues}

Quiet ==
  /\ exited = FALSE
  /\ exitCode = 0
  /\ target = NoTarget
  /\ mu = NoThread
  /\ frame = [t \in Threads |-> IdleFrame]
  /\ ctx = "none"
  /\ interrupt = 0
  /\ wg = 0
  /\ doneClosed = FALSE
  /\ loopPc = "none"
  /\ loopRet = "none"
  /\ i = 0
  /\ ping = NoPing
  /\ wake = "none"
  /\ sockets = 0
  /\ out = <<>>
  /\ errOut = <<>>

\* The command lines checked: every combination of the inputs that validation
\* and resolution read (with one probe, not verbose), and every combination of
\* the inputs that the probe loop reads (for a literal host, default port).
AddressingInputs ==
  {c \in OptionValues \X ArgValues : c[1].Count = 1 /\ ~c[1].VerboseMode}

ProbingInputs ==
  {c \in OptionValues \X ArgValues :
     /\ ~c[1].UseIPv4 /\ ~c[1].UseIPv6 /\ c[1].Port = 0 /\ c[1].Interval = 0
     /\ c[2] = <<"127.0.0.1">>}

Init ==
  /\ \E c \in AddressingInputs \cup ProbingInputs : opts = c[1] /\ args = c[2]
  /\ mainPc = "validate"
  /\ stats = NoStats
  /\ Quiet

Next ==
  \/ MainValidate
  \/ MainResolve
  \/ MainSetup
  \/ MainOnInterrupt
  \/ MainOnDone
  \/ MainPrint
  \/ WaiterClose
  \/ Signal
  \/ LoopCondFalse
  \/ LoopPreCheckCanceled
  \/ LoopBeginPing
  \/ PingDial
  \/ DialSucceed
  \/ DialRefused
  \/ DialTimeout
  \/ DialCanceled
  \/ PingCanceled
  \/ PingUpdate
  \/ UpdateLock("loop")
  \/ UpdateLoad("loop")
  \/ UpdateStore("loop")
  \/ UpdateRest("loop")
  \/ UpdateUnlock("loop")
  \/ PingReportFailure
  \/ PingReportSuccess
  \/ PingClose
  \/ LoopBreak
  \/ LoopSelectPark
  \/ LoopSelectReady
  \/ TimerFire
  \/ LoopWaitCanceled
  \/ LoopWaitElapsed
  \/ GetStatsLock("main")
  \/ GetStatsAvg("main")
  \/ GetStatsRead("main")
  \/ GetStatsUnlock("main")

Spec == Init /\ [][Next]_vars

\* The steps of the main goroutine, of the probe goroutine, and of the Go
\* runtime on their behalf.
MainStep ==
  \/ MainValidate
  \/ MainResolve
  \/ MainSetup
  \/ MainOnInterrupt
  \/ MainOnDone
  \/ MainPrint
  \/ GetStatsLock("main")
  \/ GetStatsAvg("main")
  \/ GetStatsRead("main")
  \/ GetStatsUnlock("main")

LoopStep ==
  \/ LoopCondFalse
  \/ LoopPreCheckCanceled
  \/ LoopBeginPing
  \/ PingDial
  \/ DialSucceed
  \/ DialRefused
  \/ DialTimeout
  \/ DialCanceled
  \/ PingCanceled
  \/ PingUpdate
  \/ UpdateLock("loop")
  \/ UpdateLoad("loop")
  \/ UpdateStore("loop")
  \/ UpdateRest("loop")
  \/ UpdateUnlock("loop")
  \/ PingReportFailure
  \/ PingReportSuccess
  \/ PingClose
  \/ LoopBreak
  \/ LoopSelectPark
  \/ LoopSelectReady
  \/ LoopWaitCanceled
  \/ LoopWaitElapsed

\* The Go scheduler runs every runnable goroutine sooner or later, a dial
\* returns (its deadline sees to that) and an armed timer fires.  Nothing
\* obliges the OS to send a signal.
FairSpec ==
  /\ Spec
  /\ WF_vars(MainStep)
  /\ WF_vars(LoopStep)
  /\ WF_vars(WaiterClose)
  /\ WF_vars(TimerFire)

\* ------------------------------------------- the aggregator on its own

\* The flag defaults of setupFlags.
DefaultOptions ==
  [UseIPv4 |-> FALSE, UseIPv6 |-> FALSE, Count |-> 0, Interval |-> 1000,
   Timeout |-> 1000, Port |-> 0, VerboseMode |-> FALSE]

\* One Statistics object and MaxCallers goroutines that each call update
\* once, with any arguments; a "reader" goroutine that calls getStats at any
\* moment; and "main", which calls getStats once every update has returned.
InitAgg ==
  /\ opts = DefaultOptions
  /\ args = <<>>
  /\ mainPc = "harness"
  /\ stats = NewStatistics
  /\ Quiet

WorkerCall(t) ==
  /\ frame[t].pc = "idle"
  /\ \E e \in ElapsedValues, ok \in BOOLEAN : frame' = CallUpdate(t, e, ok)
  /\ UNCHANGED <<opts, args, mainVars, loopVars, stats, mu, out, errOut>>

ReaderCall ==
  /\ frame["reader"].pc = "idle"
  /\ frame' = CallGetStats("reader")
  /\ UNCHANGED <<opts, args, mainVars, loopVars, stats, mu, out, errOut>>

FinalCall ==
  /\ frame["main"].pc = "idle"
  /\ \A w \in Workers : frame[w].pc = "ret"
  /\ frame' = CallGetStats("main")
  /\ UNCHANGED <<opts, args, mainVars, loopVars, stats, mu, out, errOut>>

NextAgg ==
  \/ \E t \in Workers : WorkerCall(t)
  \/ ReaderCall
  \/ FinalCall
  \/ \E t \in Workers : UpdateLock(t)
  \/ \E t \in Workers : UpdateLoad(t)
  \/ \E t \in Workers : UpdateStore(t)
  \/ \E t \in Workers : UpdateRest(t)
  \/ \E t \in Workers : UpdateUnlock(t)
  \/ \E t \in {"reader", "main"} : GetStatsLock(t)
  \/ \E t \in {"reader", "main"} : GetStatsAvg(t)
  \/ \E t \in {"reader", "main"} : GetStatsRead(t)
  \/ \E t \in {"reader", "main"} : GetStatsUnlock(t)

SpecAgg == InitAgg /\ [][NextAgg]_vars

\* ------------------------------------------------------ reading the state

\* ------------------------------------------- resolveAddress on its own

\* One call resolveAddress(host, useIPv4, useIPv6) with any host and any pair
\* of flags; the caller keeps the returned address in target and appends the
\* returned error, if any, to errOut.
InitResolve ==
  /\ \E h \in ResolverHostValues, u4 \in BOOLEAN, u6 \in BOOLEAN :
       /\ args = <<h>>
       /\ target = [NoTarget EXCEPT !.host = h, !.useIPv4 = u4, !.useIPv6 = u6]
  /\ opts = DefaultOptions
  /\ mainPc = "resolver"
  /\ stats = NoStats
  /\ exited = FALSE /\ exitCode = 0
  /\ mu = NoThread
  /\ frame = [t \in Threads |-> IdleFrame]
  /\ ctx = "none" /\ interrupt = 0 /\ wg = 0 /\ doneClosed = FALSE
  /\ loopPc = "none" /\ loopRet = "none" /\ i = 0
  /\ ping = NoPing /\ wake = "none" /\ sockets = 0
  /\ out = <<>> /\ errOut = <<>>

ResolveCall ==
  /\ mainPc = "resolver"
  /\ LET r == resolveAddress(target.host, target.useIPv4, target.useIPv6)
     IN /\ target' = [target EXCEPT !.address = r.addr]
        /\ errOut' = IF r.err # NoError THEN Append(errOut, r.err) ELSE errOut
  /\ mainPc' = "resolved"
  /\ UNCHANGED <<opts, args, exited, exitCode, stats, mu, frame, ctx, interrupt,
                 wg, doneClosed, loopVars, out>>

NextResolve == ResolveCall

SpecResolve == InitResolve /\ [][NextResolve]_vars

IsAttemptLine(l) == l.kind \in {"ok", "fail"}

IsOkLine(l) == l.kind = "ok"

IsSummaryLine(l) == l.kind = "summary"

IsTotalsLine(l) == l.kind = "totals"

AttemptLines == SelectSeq(out, IsAttemptLine)

Has(kind) == \E k \in 1..Len(out) : out[k].kind = kind

SummaryCount == Len(SelectSeq(out, IsSummaryLine))

\* main has gone past its select into printTCPingStatistics.
Finalizing == mainPc = "stats" \/ (mainPc = "exit" /\ exitCode = 0)

\* ------------------------------------------------------------- claims

\* C1: on both shutdown paths the probe goroutine has exited before main
\* takes the statistics snapshot; hence, from the moment main has called
\* getStats, the probe goroutine is never inside a call of update (one that
\* has already returned is no race).
C1_NoUpdateRacesSnapshot ==
  frame["main"].pc # "idle" => frame["loop"].pc \in {"idle", "ret"}

\* C2, in every state: at most one summary has been printed, none before
\* main is past its select, and a run that passed validation and resolution
\* has not exited without exactly one, printed last, from its one getStats
\* call.
SummaryAtMostOnce ==
  /\ SummaryCount <= 1
  /\ mainPc \in {"validate", "resolve", "setup", "select"} =>
       SummaryCount = 0 /\ frame["main"].pc = "idle"
  /\ mainPc = "stats" => SummaryCount = 0 /\ frame["main"].pc # "idle"
  /\ (exited /\ target.address # <<>>) =>
       /\ exitCode = 0
       /\ SummaryCount = 1
       /\ out[Len(out) - Len(SummaryLines(frame["main"].ret)) + 1].kind = "summary"
       /\ frame["main"].pc = "ret"
  /\ Has("interrupted") => Finalizing

\* C2: a run that passes validation and resolution prints the summary exactly
\* once, from exactly one getStats call, whichever case of main's select is
\* taken; and once a signal is in the interrupt channel, or its case has been
\* taken, the run goes on to print the summary and exit.
C2_SummaryExactlyOnce ==
  /\ []SummaryAtMostOnce
  /\ (interrupt > 0 \/ Has("interrupted")) ~>
       (exited /\ exitCode = 0 /\ SummaryCount = 1)

\* C2's case: the interrupt and the loop's completion were both ready, the
\* interrupt was taken, and the run has ended with its one summary.
C2_Witness ==
  /\ exited /\ exitCode = 0
  /\ Has("interrupted") /\ doneClosed
  /\ SummaryCount = 1

\* C3: no connection that pingOnce opened is still open once pingOnce has
\* returned: outside the stretch from the dial's return to the deferred Close
\* the process holds no open connection.
C3_ConnClosedBeforeReturn ==
  loopPc \notin {"dialed", "update", "close"} => sockets = 0

\* C4: an attempt whose dial is found canceled by the parent context leaves
\* the statistics alone and prints the interruption notice in place of a
\* result line; after it no further attempt starts and no result line
\* follows.  A dial that ends by its own deadline, the parent not canceled, is
\* handed to update as a failure and reported as one.
C4_AbortedNotCounted ==
  /\ [](Has("aborted") =>
          /\ loopPc \in {"post", "wait", "check", "done"}
          /\ frame["loop"].pc = "idle"
          /\ \A j, k \in 1..Len(out) :
               (out[j].kind = "aborted" /\ j < k) =>
                 out[k].kind \notin {"ok", "fail", "detail", "aborted"}
          /\ stats.sentCount = Len(AttemptLines))
  /\ [][/\ (loopPc = "dialed" /\ ctx = "canceled" /\ loopPc' # loopPc) =>
             /\ stats' = stats
             /\ frame' = frame
             /\ out' = Append(out, AbortedLine)
        /\ Has("aborted") => stats' = stats
        /\ (loopPc = "dialed" /\ ctx # "canceled" /\ ping.err = "timeout"
              /\ loopPc' # loopPc) =>
             /\ frame'["loop"].pc = "u_lock"
             /\ ~frame'["loop"].success
        /\ (loopPc = "update" /\ ping.err = "timeout" /\ loopPc' # loopPc) =>
             /\ stats.sentCount = Len(AttemptLines) + 1
             /\ out'[Len(out) + 1] = FailureLine(i, "timeout")]_vars

\* C4's case: a timed-out attempt was counted and reported, a later attempt
\* was aborted by the interrupt, and the loop has ended.
C4_Witness ==
  /\ Has("aborted")
  /\ loopPc = "done"
  /\ stats.sentCount = 1
  /\ \E k \in 1..Len(out) : out[k] = FailureLine(0, "timeout")


TotalsLines == SelectSeq(out, IsTotalsLine)

OkCount == Len(SelectSeq(out, IsOkLine))

\* The totals line of the summary reports n sent, or is left out when n = 0.
SummaryReportsSent(n) ==
  IF n > 0 THEN Len(TotalsLines) = 1 /\ TotalsLines[1].sent = n
  ELSE Len(TotalsLines) = 0

\* C5: with Count = N > 0 and the interrupt never taken, the loop never waits
\* after attempt N-1, ends by its own break, has made exactly the attempts
\* 0..N-1 in order, and the summary reports N sent (all lost, none received,
\* if every attempt failed).
C5_BoundedRunCompletes ==
  /\ (loopPc = "wait" /\ opts.Count > 0) => i < opts.Count - 1
  /\ (opts.Count > 0 /\ Finalizing /\ ~Has("interrupted")) =>
       /\ loopPc = "done" /\ loopRet = "break"
       /\ ctx = "canceled" => mainPc = "exit"
       /\ Len(AttemptLines) = opts.Count
       /\ \A k \in 1..Len(AttemptLines) : AttemptLines[k].seq = k - 1
       /\ stats.sentCount = opts.Count
       /\ frame["main"].pc = "ret" => frame["main"].ret.sent = opts.Count
       /\ mainPc = "exit" =>
            /\ SummaryReportsSent(opts.Count)
            /\ TotalsLines[1].responded = OkCount
            /\ OkCount = 0 =>
                 TotalsLines[1].lost = opts.Count /\ ~Has("rtt")

\* C5's case: Count = 2, no interrupt, both attempts failed, the run is over.
C5_Witness ==
  /\ opts.Count = 2 /\ mainPc = "exit" /\ exitCode = 0
  /\ ~Has("interrupted")
  /\ OkCount = 0 /\ Len(AttemptLines) = 2

\* C6: when cancel() finds the goroutine parked in the inter-attempt select,
\* the select completes by ctx.Done(): the goroutine returns from there
\* without another iteration, nothing more is counted or reported, and the
\* summary's sent count is the number of attempts completed before.
C6_CancelDuringWait ==
  /\ [](wake = "ctx" =>
          /\ loopPc \in {"wait", "done"}
          /\ loopPc = "done" => loopRet = "wait"
          /\ frame["loop"].pc = "idle"
          /\ stats.sentCount = Len(AttemptLines)
          /\ frame["main"].pc = "ret" => frame["main"].ret.sent = Len(AttemptLines)
          /\ mainPc = "exit" => SummaryReportsSent(Len(AttemptLines)))
  /\ [][/\ (loopPc = "wait" /\ wake = "none" /\ ctx # "canceled" /\ ctx' = "canceled") =>
             wake' = "ctx"
        /\ (loopPc = "wait" /\ wake = "ctx" /\ loopPc' # loopPc) =>
             loopPc' = "done" /\ i' = i
        /\ (loopPc \in {"wait", "check"} /\ ctx = "canceled") =>
             loopPc' \in {"wait", "check", "done"}
        /\ wake = "ctx" =>
             /\ wake' = "ctx"
             /\ stats' = stats
             /\ AttemptLines' = AttemptLines]_vars

\* C6's case: an unbounded run was interrupted while the goroutine was parked
\* after its first attempt; the goroutine has returned and the run is over.
C6_Witness ==
  /\ opts.Count = 0
  /\ wake = "ctx" /\ loopPc = "done" /\ i = 0
  /\ mainPc = "exit" /\ SummaryReportsSent(1)

\* C7: a failed connect is handed to update once as a failure (one more sent,
\* responded as before), reported by one failure line under its sequence
\* number, never dialed again, and the loop goes on from it as from a
\* success: the result lines carry the sequence numbers 0, 1, 2, ... with no
\* repeat and no gap.
C7_FailureCountedNoRetry ==
  /\ [](\A k \in 1..Len(AttemptLines) : AttemptLines[k].seq = k - 1)
  /\ [](loopPc = "post" => ping = NoPing /\ frame["loop"].pc = "idle")
  /\ [][/\ (loopPc = "dialed" /\ ctx # "canceled" /\ ping.err # NoError
              /\ loopPc' # loopPc) =>
             /\ frame'["loop"].pc = "u_lock"
             /\ ~frame'["loop"].success
        /\ (loopPc = "update" /\ ping.err # NoError /\ loopPc' # loopPc) =>
             /\ stats.sentCount = Len(AttemptLines) + 1
             /\ stats.respondedCount = OkCount
             /\ out' = out \o <<FailureLine(i, ping.err)>>
                           \o (IF opts.VerboseMode THEN <<DetailLine>> ELSE <<>>)
             /\ loopPc' = "post"
             /\ i' = i
        /\ (loopPc = "post" /\ loopPc' # loopPc) =>
             loopPc' = IF LastAttempt THEN "done" ELSE "wait"
        /\ (loopPc = "wait" /\ wake = "timer" /\ loopPc' # loopPc) =>
             loopPc' = "check" /\ i' = i + 1]_vars

\* C7's case: attempt 0 failed, attempt 1 followed and succeeded.
C7_Witness ==
  /\ Len(AttemptLines) = 2
  /\ AttemptLines[1] = FailureLine(0, "refused")
  /\ AttemptLines[2].kind = "ok"
  /\ stats.sentCount = 2 /\ stats.respondedCount = 1


\* ---- the aggregator harness: what the callers know

\* The callers whose update has returned, and those that have called it.
Returned == {w \in Workers : frame[w].pc = "ret"}

Started == {w \in Workers : frame[w].pc # "idle"}

Successes(S) == {w \in S : frame[w].success}

RECURSIVE SumElapsed(_)
SumElapsed(S) ==
  IF S = {} THEN 0
  ELSE LET w == CHOOSE x \in S : TRUE
       IN frame[w].elapsed + SumElapsed(S \ {w})

\* No caller is between update's Lock and its Unlock.
NoUpdateInProgress == \A w \in Workers : frame[w].pc \in {"idle", "u_lock", "ret"}

\* What getStats returns if exactly the updates of the callers S were applied.
SnapshotOf(S) ==
  LET K == Successes(S)
  IN [sent |-> Cardinality(S),
      responded |-> Cardinality(K),
      min |-> IF K = {} THEN 0
              ELSE CHOOSE m \in {frame[w].elapsed : w \in K} :
                     \A w \in K : m <= frame[w].elapsed,
      max |-> IF K = {} THEN 0
              ELSE CHOOSE m \in {frame[w].elapsed : w \in K} :
                     \A w \in K : m >= frame[w].elapsed,
      avg |-> IF K = {} THEN ZeroFloat ELSE Quot(SumElapsed(K), Cardinality(K))]

\* C8: after any N updates of which k succeeded, sentCount = N,
\* respondedCount = k, totalTime is the sum of the successes' elapsed values,
\* minTime <= each of them <= maxTime with both attained (after one success
\* both equal its elapsed value, never the zero they started from), and
\* getStats returns avg = totalTime / k, or 0 when k = 0.
C8_AggregateOfUpdates ==
  LET K == Successes(Returned)
  IN /\ NoUpdateInProgress =>
          /\ stats.sentCount = Cardinality(Returned)
          /\ stats.respondedCount = Cardinality(K)
          /\ stats.totalTime = SumElapsed(K)
          /\ \A w \in K : stats.minTime <= frame[w].elapsed
                          /\ frame[w].elapsed <= stats.maxTime
          /\ K # {} => /\ \E w \in K : stats.minTime = frame[w].elapsed
                       /\ \E w \in K : stats.maxTime = frame[w].elapsed
          /\ \A w \in K : K = {w} => /\ stats.minTime = frame[w].elapsed
                                     /\ stats.maxTime = frame[w].elapsed
     /\ frame["main"].pc = "ret" =>
          /\ frame["main"].ret.sent = MaxCallers
          /\ frame["main"].ret.responded = Cardinality(K)
          /\ frame["main"].ret.avg =
               IF K = {} THEN ZeroFloat ELSE Quot(stats.totalTime, Cardinality(K))
          /\ frame["main"].ret.min = stats.minTime
          /\ frame["main"].ret.max = stats.maxTime

\* C8's case: every update has returned, at least two of them successes with
\* different elapsed values and one a failure, and getStats has returned.
C8_Witness ==
  /\ frame["main"].pc = "ret"
  /\ frame["main"].ret.responded = MaxCallers - 1
  /\ frame["main"].ret.min < frame["main"].ret.max
  /\ frame["main"].ret.avg.den = MaxCallers - 1

\* C9: update and getStats exclude each other (at most one goroutine is
\* between Lock and Unlock, and it holds the mutex), so no update is lost:
\* once all MaxCallers updates have returned sentCount is MaxCallers and so is
\* the sent count getStats then returns, and a getStats that runs among the
\* updates returns the aggregate of some set of whole updates, never part of
\* one.
C9_MutualExclusionNoLostUpdate ==
  /\ \A s, t \in Threads : (InCritical(s) /\ InCritical(t)) => s = t
  /\ \A t \in Threads : InCritical(t) => mu = t
  /\ Returned = Workers => stats.sentCount = MaxCallers
  /\ frame["main"].pc = "ret" => frame["main"].ret.sent = MaxCallers
  /\ frame["reader"].pc = "ret" =>
       \E S \in SUBSET Started : frame["reader"].ret = SnapshotOf(S)

\* C9's case: getStats ran among the updates and saw some but not all of
\* them, and the getStats after the last update has returned too.
C9_Witness ==
  /\ frame["main"].pc = "ret"
  /\ frame["reader"].pc = "ret"
  /\ frame["reader"].ret.sent > 0
  /\ frame["reader"].ret.sent < MaxCallers
  /\ frame["reader"].ret.responded > 0


\* ---- the command line, as the claims describe it

\* The port the run would use: the positional one, else -p, else 80.
EffectivePort ==
  IF Len(args) > 1 THEN Atoi(args[2])
  ELSE IF opts.Port > 0 THEN [err |-> FALSE, n |-> opts.Port]
  ELSE [err |-> FALSE, n |-> 80]

InvalidCommandLine ==
  \/ opts.UseIPv4 /\ opts.UseIPv6
  \/ opts.Interval < 0
  \/ opts.Timeout < 0
  \/ Len(args) = 0
  \/ EffectivePort.err
  \/ EffectivePort.n \notin 1..65535

\* The host has no address of the family asked for: a literal of the other
\* family, a name whose lookup fails, or one with no candidate of that family.
Unresolvable ==
  /\ Len(args) > 0
  /\ LET lit == ParseIP(args[1])
         look == LookupIP(args[1])
         fams == IF ~lit.nil THEN {lit.v4}
                 ELSE {look.ips[k].v4 : k \in 1..Len(look.ips)}
     IN \/ fams = {}
        \/ opts.UseIPv4 /\ TRUE \notin fams
        \/ opts.UseIPv6 /\ FALSE \notin fams

\* Nothing of the probing core exists: no Statistics, no context, no signal
\* channel in use, no goroutine, no attempt, no header, no summary.
NothingStarted ==
  /\ stats = NoStats
  /\ ctx = "none"
  /\ wg = 0 /\ loopPc = "none" /\ ~doneClosed
  /\ sockets = 0
  /\ out = <<>>
  /\ \A t \in Threads : frame[t] = IdleFrame

\* C10: when validation or resolution fails, the run ends with exit code 1
\* before the context, the Statistics object or the probe goroutine exists:
\* main never gets past its validate and resolve steps, no attempt is made and
\* no summary is printed.
C10_FailFastBeforeCore ==
  /\ (InvalidCommandLine \/ Unresolvable) =>
       /\ mainPc \in {"validate", "resolve", "exit"}
       /\ NothingStarted
       /\ mainPc = "exit" => exited /\ exitCode = 1 /\ Len(errOut) = 1
  /\ (exited /\ exitCode = 1) => NothingStarted

\* C10's case: a run that passed validation and failed in resolution (a
\* literal of the other family) has exited with code 1.
C10_Witness ==
  /\ exited /\ exitCode = 1
  /\ ~InvalidCommandLine
  /\ target.host = "::1" /\ opts.UseIPv4



\* ---- resolveAddress on its own: what the caller sees

Resolved == mainPc = "resolved"

ResolveFailed == errOut # <<>>

\* The family mismatch of a literal: a family is asked for and the literal is
\* of the other one (an IPv4 address being one whose To4() is not nil).
FamilyMismatch(ip) ==
  \/ target.useIPv4 /\ ~ip.v4
  \/ target.useIPv6 /\ ip.v4

\* C11 as stated: for a literal host resolveAddress fails with a
\* family-mismatch error exactly when a requested family differs from the
\* literal's; otherwise it returns the literal itself, bare for IPv4 and
\* bracket-delimited for IPv6.
C11_LiteralReturnedAsTyped ==
  LET ip == ParseIP(target.host)
  IN (Resolved /\ ~ip.nil) =>
       /\ ResolveFailed <=> FamilyMismatch(ip)
       /\ ResolveFailed =>
            errOut[1] \in {"not an IPv4 address", "not an IPv6 address"}
       /\ ~ResolveFailed =>
            target.address = IF ip.v4 THEN <<target.host>>
                             ELSE <<"[", target.host, "]">>

\* C11, amended: for a literal host resolveAddress fails with a
\* family-mismatch error exactly when useIPv4 is set and the literal is not
\* an IPv4 address or useIPv6 is set and it is one (an IPv4-mapped IPv6 literal
\* counts as IPv4); otherwise it returns the canonical text of the parsed
\* address, bare for IPv4 and bracket-delimited for IPv6, which is the literal
\* as typed when that is already canonical: 127.0.0.1 with IPv4-only returns
\* 127.0.0.1, with IPv6-only it fails.
C11_LiteralCanonical ==
  LET ip == ParseIP(target.host)
  IN /\ (Resolved /\ ~ip.nil) =>
          /\ ResolveFailed <=> FamilyMismatch(ip)
          /\ ResolveFailed =>
               /\ target.address = <<>>
               /\ errOut = IF target.useIPv4 /\ ~ip.v4
                             THEN <<"not an IPv4 address">>
                             ELSE <<"not an IPv6 address">>
          /\ ~ResolveFailed =>
               /\ target.address = IF ip.v4 THEN <<ip.str>> ELSE <<"[", ip.str, "]">>
               /\ ip.str = target.host =>
                    target.address \in {<<target.host>>, <<"[", target.host, "]">>}
     /\ (Resolved /\ target.host = "127.0.0.1") =>
          /\ (target.useIPv4 /\ ~target.useIPv6) =>
               target.address = <<"127.0.0.1">> /\ errOut = <<>>
          /\ (target.useIPv6 /\ ~target.useIPv4) =>
               target.address = <<>> /\ errOut = <<"not an IPv6 address">>
     /\ (Resolved /\ target.host = "::1" /\ ~target.useIPv4) =>
          target.address = <<"[", "::1", "]">>
     /\ (Resolved /\ target.host = "0:0:0:0:0:0:0:1" /\ ~target.useIPv4) =>
          target.address = <<"[", "::1", "]">>
     /\ (Resolved /\ target.host = "::ffff:10.0.0.1") =>
          IF target.useIPv6 THEN errOut = <<"not an IPv6 address">>
          ELSE target.address = <<"10.0.0.1">>

\* C11's case: an IPv6 literal in a spelling that is not the canonical one
\* was resolved with IPv6 asked for.
C11_Witness ==
  /\ Resolved /\ ~ResolveFailed
  /\ target.host = "0:0:0:0:0:0:0:1" /\ target.useIPv6
  /\ target.address = <<"[", "::1", "]">>

\* C12: for a host that is no literal, a lookup error or an empty candidate
\* list fails the resolution; with one family asked for the result is the
\* first candidate of that family in list order, or a failure if there is
\* none; with no family asked for it is the first IPv4 candidate if there is
\* one, else the first IPv6 candidate.  IPv4 results are bare, IPv6 results
\* bracket-delimited.
C12_FirstCandidateOfFamily ==
  LET look == LookupIP(target.host)
      ips == look.ips
      Has4 == \E k \in 1..Len(ips) : ips[k].v4
      Has6 == \E k \in 1..Len(ips) : ~ips[k].v4
      IsFirst4 == \E k \in 1..Len(ips) :
                    /\ ips[k].v4 /\ \A j \in 1..(k - 1) : ~ips[j].v4
                    /\ target.address = <<ips[k].str>>
      IsFirst6 == \E k \in 1..Len(ips) :
                    /\ ~ips[k].v4 /\ \A j \in 1..(k - 1) : ips[j].v4
                    /\ target.address = <<"[", ips[k].str, "]">>
      only4 == target.useIPv4 /\ ~target.useIPv6
      only6 == target.useIPv6 /\ ~target.useIPv4
      none == ~target.useIPv4 /\ ~target.useIPv6
  IN (Resolved /\ ParseIP(target.host).nil) =>
       /\ (look.err \/ ips = <<>>) => ResolveFailed
       /\ ResolveFailed => target.address = <<>> /\ Len(errOut) = 1
       /\ (~look.err /\ ips # <<>>) =>
            /\ only4 => IF Has4 THEN ~ResolveFailed /\ IsFirst4
                        ELSE errOut = <<"no IPv4 address">>
            /\ only6 => IF Has6 THEN ~ResolveFailed /\ IsFirst6
                        ELSE errOut = <<"no IPv6 address">>
            /\ none => /\ ~ResolveFailed
                       /\ IF Has4 THEN IsFirst4 ELSE IsFirst6

\* C12's case: IPv6 was asked for of a name whose candidate list has its
\* first IPv6 address in second place, after an IPv4 address and before
\* another IPv6 one.
C12_Witness ==
  /\ Resolved /\ ~ResolveFailed
  /\ target.host = "late6.example"
  /\ target.useIPv6 /\ ~target.useIPv4
  /\ target.address = <<"[", "2001:db8::8", "]">>



\* ---- the probe loop under cancellation

IsExecutorLine(l) == l.kind \in {"ok", "fail", "aborted"}

\* The lines that invocations of pingOnce have emitted: one each.
ExecutorLines == SelectSeq(out, IsExecutorLine)

\* C13 as stated: a cycle that begins with the cancellation set goes to Done
\* at once, and from the moment cancel() has run pingOnce is never invoked
\* again.
C13_NoInvocationAfterCancel ==
  [][/\ (loopPc = "check" /\ ctx = "canceled" /\ loopPc' # loopPc) =>
          loopPc' = "done"
     /\ ctx = "canceled" => ~(loopPc = "call" /\ loopPc' # loopPc)]_vars

\* C13, amended: a cycle whose pre-attempt check finds the cancellation set
\* goes to Done at once, pingOnce is not invoked for that sequence number and
\* nothing is counted or printed; once cancel() has run no cycle passes the
\* check.  Only a cycle whose check had passed before cancel() ran can still
\* invoke pingOnce, and that invocation makes no connection and no update and
\* emits just the interruption notice.
C13_NoCyclePastCheckAfterCancel ==
  /\ [][/\ (loopPc = "check" /\ ctx = "canceled" /\ loopPc' # loopPc) =>
             /\ loopPc' = "done"
             /\ <<i, out, stats, frame, sockets, ping>>' =
                  <<i, out, stats, frame, sockets, ping>>
        /\ ctx = "canceled" => ~(loopPc = "check" /\ loopPc' = "call")
        /\ (loopPc = "call" /\ ctx = "canceled" /\ loopPc' # loopPc) =>
             /\ loopPc' = "dialed"
             /\ ping'.conn = "nil" /\ ping'.err = "canceled"
             /\ sockets' = sockets
        /\ (loopPc = "dialed" /\ ping.err = "canceled" /\ loopPc' # loopPc) =>
             /\ out' = Append(out, AbortedLine)
             /\ <<stats, frame, sockets>>' = <<stats, frame, sockets>>]_vars
  /\ []((loopPc = "done" /\ loopRet = "precheck") =>
          /\ ctx = "canceled"
          /\ opts.Count = 0 \/ i < opts.Count
          /\ Len(ExecutorLines) = i
          /\ \A k \in 1..Len(AttemptLines) : AttemptLines[k].seq < i)

\* C13's case: after one attempt and its wait, the second cycle began with
\* the cancellation set and the goroutine returned from the pre-attempt check.
C13_Witness ==
  /\ loopPc = "done" /\ loopRet = "precheck"
  /\ i = 1 /\ Len(AttemptLines) = 1



\* C14: once cancel() has run, the probe goroutine reaches Done, whatever it
\* was doing, after at most the one attempt that was in flight.  Stated of the
\* run's end, after which nothing more happens: a run that was canceled has
\* not ended with the goroutine short of Done, and at most one pingOnce line
\* follows the interrupt notice.
C14_CanceledLoopReachesDone ==
  (exited /\ ctx = "canceled") =>
    /\ loopPc = "done"
    /\ \A j, k, l \in 1..Len(out) :
         (out[j].kind = "interrupted" /\ j < k /\ k < l) =>
           ~(IsExecutorLine(out[k]) /\ IsExecutorLine(out[l]))



\* C15: with Count = 0 the probe goroutine is Done only if the cancellation
\* has been triggered from outside: the context is canceled, by the interrupt
\* case of main's select, and the goroutine left by one of its two
\* `case <-ctx.Done(): return`, never by the loop condition or the break.
C15_UnboundedEndsOnlyByCancel ==
  (opts.Count = 0 /\ loopPc = "done") =>
    /\ ctx = "canceled"
    /\ Has("interrupted")
    /\ loopRet \in {"precheck", "wait"}

\* C15's case: an unbounded run made an attempt, was interrupted, and its
\* goroutine is Done.
C15_Witness ==
  /\ opts.Count = 0 /\ loopPc = "done"
  /\ Len(AttemptLines) >= 1
  /\ Has("interrupted")



\* ---- the aggregator's data invariant

\* No caller is part-way through update's writes to the response fields.
NoResponseHalfWritten == \A t \in Threads : frame[t].pc # "u_rest"

InvocationsReported ==
  CASE loopPc \in {"none", "check", "call", "dial", "dialed", "update"} -> i
    [] loopPc \in {"close", "post", "wait"} -> i + 1
    [] loopPc = "done" -> IF loopRet \in {"break", "wait"} THEN i + 1 ELSE i

\* The current invocation's update has incremented sentCount and its line is
\* still to come.
UpdateAhead ==
  loopPc = "update" /\ frame["loop"].pc \in {"u_rest", "u_unlock", "ret"}

\* C17: every invocation of pingOnce emits exactly one line out of success
\* line, failure line and interruption notice (a verbose detail line may
\* follow the first two); with a success or failure line goes exactly one
\* update, which has returned before the line is emitted, and with the
\* interruption notice goes none.
C17_OneLineOneUpdate ==
  /\ [](Len(ExecutorLines) = InvocationsReported)
  /\ [](stats.sentCount = Len(AttemptLines) + (IF UpdateAhead THEN 1 ELSE 0))
  /\ [](loopPc \in {"post", "wait", "check", "call", "dial", "dialed", "done"} =>
          frame["loop"].pc = "idle")
  /\ [][Len(ExecutorLines') # Len(ExecutorLines) =>
          /\ Len(ExecutorLines') = Len(ExecutorLines) + 1
          /\ loopPc \in {"dialed", "update"}
          /\ stats' = stats
          /\ IF out'[Len(out) + 1].kind = "aborted"
               THEN /\ out' = Append(out, AbortedLine)
                    /\ frame["loop"].pc = "idle"
                    /\ stats.sentCount = Len(AttemptLines)
               ELSE /\ out'[Len(out) + 1].kind \in {"ok", "fail"}
                    /\ out'[Len(out) + 1].seq = i
                    /\ frame["loop"].pc = "ret"
                    /\ frame["loop"].success <=> out'[Len(out) + 1].kind = "ok"
                    /\ stats.sentCount = Len(AttemptLines) + 1
                    /\ Len(out') <= Len(out) + 2
                    /\ Len(out') = Len(out) + 2 => out'[Len(out) + 2] = DetailLine]_vars

\* C17's case: the first invocation succeeded and was counted, the second
\* was aborted and was not.
C17_Witness ==
  /\ loopPc = "post" /\ i = 1
  /\ Len(ExecutorLines) = 2
  /\ ExecutorLines[1].kind = "ok" /\ ExecutorLines[2].kind = "aborted"
  /\ stats.sentCount = 1



\* C18: once validation has passed, the family preference is never IPv4 and
\* IPv6 at once: neither the two flags, nor the pair (useIPv4, useIPv6) that
\* main derives from them and the host and hands to resolveAddress.
C18_NeverBothFamilies ==
  target.host # "" =>
    /\ ~(opts.UseIPv4 /\ opts.UseIPv6)
    /\ ~(target.useIPv4 /\ target.useIPv6)



\* ---- one attempt at a time

\* The attempts started so far: the cycles that have got past the
\* pre-attempt check.
AttemptsStarted ==
  CASE loopPc \in {"none", "check"} -> i
    [] loopPc \in {"call", "dial", "dialed", "update", "close", "post", "wait"} -> i + 1
    [] loopPc = "done" -> IF loopRet \in {"break", "wait"} THEN i + 1 ELSE i

\* pingOnce is running.
InPingOnce == loopPc \in {"call", "dial", "dialed", "update", "close"}

\* C19: attempts do not overlap.  While attempt i is under way every earlier
\* attempt has returned (its line is out, its update is in, its locals are
\* gone) and at most one connection is open; the sequence number moves only
\* from i to i + 1, only when pingOnce has returned and the inter-attempt
\* wait has ended by its timer; sentCount never exceeds the number of
\* attempts started, which never exceeds Count when Count > 0.
C19_AttemptsDoNotOverlap ==
  /\ [](sockets <= 1)
  /\ [](InPingOnce =>
          /\ Len(ExecutorLines) \in {i, i + 1}
          /\ \A k \in 1..Len(AttemptLines) : AttemptLines[k].seq <= i
          /\ stats.sentCount \in {Len(AttemptLines), Len(AttemptLines) + 1})
  /\ [](loopPc = "call" => ping = NoPing /\ Len(ExecutorLines) = i)
  /\ [](stats.sentCount <= AttemptsStarted)
  /\ [](opts.Count > 0 => AttemptsStarted <= opts.Count /\ stats.sentCount <= opts.Count)
  /\ [][/\ i' # i =>
             /\ i' = i + 1
             /\ loopPc = "wait" /\ wake = "timer"
             /\ loopPc' = "check"
             /\ ping = NoPing /\ frame["loop"].pc = "idle"
             /\ Len(ExecutorLines) = i + 1
        /\ (loopPc # "call" /\ loopPc' = "call") => loopPc = "check" /\ i' = i
        /\ (loopPc = "post" /\ loopPc' # loopPc) => loopPc' \in {"wait", "done"}]_vars

\* C19's case: attempt 0 has returned, the wait has elapsed and attempt 1's
\* connect is in flight.
C19_Witness ==
  /\ loopPc = "dial" /\ i = 1
  /\ Len(ExecutorLines) = 1
  /\ stats.sentCount = 1



\* C20: a negative Count passes validation (it is neither rejected nor
\* unbounded): the loop condition fails at once, so the goroutine's only step
\* takes it to Done without an attempt, nothing is dialed, counted or
\* reported, and the summary, on the <-done path as on any other, has no
\* totals line.
C20_NegativeCountRunsNothing ==
  /\ []((opts.Count < 0 /\ ~InvalidCommandLine /\ ~Unresolvable) =>
          /\ ~(exited /\ exitCode = 1)
          /\ errOut = <<>>
          /\ loopPc \in {"none", "check", "done"}
          /\ loopPc = "done" => loopRet = "cond"
          /\ i = 0 /\ sockets = 0 /\ frame["loop"].pc = "idle"
          /\ stats.sentCount = 0
          /\ ExecutorLines = <<>>
          /\ ~Has("totals") /\ ~Has("rtt")
          /\ frame["main"].pc = "ret" => frame["main"].ret.sent = 0
          /\ (mainPc = "exit" /\ ~Has("interrupted")) =>
               /\ loopPc = "done" /\ doneClosed
               /\ SummaryCount = 1
               /\ out[Len(out)].kind = "summary")
  /\ [][(opts.Count < 0 /\ loopPc = "check" /\ loopPc' # loopPc) =>
          loopPc' = "done" /\ loopRet' = "cond" /\ wg' = 0]_vars

\* C20's case: a run with Count = -1 has ended by itself, with the summary
\* title as its last line.
C20_Witness ==
  /\ opts.Count = -1
  /\ mainPc = "exit" /\ exitCode = 0
  /\ ~Has("interrupted")
  /\ loopPc = "done" /\ loopRet = "cond"
  /\ SummaryCount = 1

====
